---- MODULE Spec2Model ----
(***************************************************************************)
(* A model of three parts of the research-report service:                  *)
(*   - the markdown normaliser (gpt_researcher/actions/markdown_processing)*)
(*   - the Writer stage        (multi_agents/agents/writer)                *)
(*   - the request coordinator (backend/server/server)                     *)
(* Text is modelled as a sequence of Unicode code points; identifiers as   *)
(* sequences of one-character strings.                                     *)
(***************************************************************************)
EXTENDS Integers, Sequences, FiniteSets, TLC

VARIABLES
    \* ---- markdown normaliser ----
    md_src,        \* the document: header items (level, text) and other items
    md_lines,      \* parsed_md.split("\n"): the rendered lines, each a text
    md_i,          \* number of lines the loop of extract_headers has consumed
    nodes,         \* the header dicts created so far, by creation order
    stack,         \* extract_headers' stack (indices into nodes)
    headers,       \* extract_headers' result list (indices into nodes)
    md_pc,         \* "extract" | "toc" | "refs"
    toc,           \* table_of_contents' returned text
    is_chinese,    \* table_of_contents' returned flag
    report_out     \* add_references' returned text

VARIABLES
    \* ---- Writer stage ----
    w_websocket,      \* self.websocket is set
    w_stream_output,  \* self.stream_output is set
    w_verbose,        \* research_state["task"]["verbose"]
    w_follow,         \* research_state["task"]["follow_guidelines"]
    w_title,          \* research_state["title"]
    w_pc,             \* "start" | "call_model_1" | "call_model_2" | "returned" | "raised"
    w_events,         \* keys of the events sent through stream_output, in order
    w_prints,         \* what print_agent_output was called for, in order
    w_calls,          \* calls and returns of write_sections and revise_headers, in order
    w_layout,         \* research_layout_content
    w_headers,        \* the local variable headers
    w_result          \* the value run returns

VARIABLES
    \* ---- request coordinator ----
    now,           \* the clock, in ticks of 1/TicksPerSecond second
    s_calls,       \* the calls of the endpoints /report/ and /generate-summary
    s_runs,        \* the invocations of write_report
    s_files,       \* the files under outputs/: path -> the invocation that wrote it
    s_read         \* what the last call of read_report returned

md_vars == <<md_src, md_lines, md_i, nodes, stack, headers, md_pc, toc, is_chinese, report_out>>

w_vars == <<w_websocket, w_stream_output, w_verbose, w_follow, w_title, w_pc,
            w_events, w_prints, w_calls, w_layout, w_headers, w_result>>

s_vars == <<now, s_calls, s_runs, s_files, s_read>>

vars == <<md_vars, w_vars, s_vars>>

----------------------------------------------------------------------------
(* Bounds of the model *)

MaxLines == 3

MaxLevel == 3

----------------------------------------------------------------------------
(* Code points *)

LT == 60

GT == 62

SLASH == 47

CH_h == 104

CH_p == 112

CH_r == 114

ZERO == 48

NINE == 57

SPACE == 32

NL == 10

HASH == 35

DASH == 45

CJK_LO == 19968

CJK_HI == 40959

\* str.isdigit() on one character (ASCII digits; the rendered tags carry no others)
IsDigit(c) == ZERO <= c /\ c <= NINE

\* int(c) for a digit character
DigitValue(c) == c - ZERO

\* the rendered form of a markdown header of the given level: <hN>text</hN>
HeaderLine(level, text) ==
    <<LT, CH_h, ZERO + level, GT>> \o text \o <<LT, SLASH, CH_h, ZERO + level, GT>>

\* header texts of the inputs: Latin only, one CJK ideograph (U+4E00), Latin
\* followed by the last ideograph of the block (U+9FFF), and the two code
\* points just outside the block (U+4DFF, U+A000)
Texts == { <<65>>, <<CJK_LO>>, <<66, CJK_HI>>, <<CJK_LO - 1, CJK_HI + 1>> }

\* rendered lines that are no headers: a paragraph and a horizontal rule
OtherLines == { <<LT, CH_p, GT, 97, LT, SLASH, CH_p, GT>>, <<LT, CH_h, CH_r, SPACE, SLASH, GT>> }

\* the items of a document: headers of a level and a text, and other lines
Items ==
    { [h |-> TRUE, level |-> l, text |-> t] : l \in 1..MaxLevel, t \in Texts }
    \cup { [h |-> FALSE, line |-> o] : o \in OtherLines }

\* markdown.markdown(...).split("\n"), item by item
Render(item) == IF item.h THEN HeaderLine(item.level, item.text) ELSE item.line

SeqsUpTo(S, n) == UNION { [1..k -> S] : k \in 0..n }

----------------------------------------------------------------------------
(* extract_headers *)

\* line.startswith("<h") and len(line) > 2 and line[2].isdigit()
IsHeaderLine(line) ==
    /\ Len(line) > 2
    /\ line[1] = LT
    /\ line[2] = CH_h
    /\ IsDigit(line[3])

\* line.index(c): position of the first occurrence (1-based), 0 if absent
Index(line, c) ==
    IF \E k \in 1..Len(line) : line[k] = c
    THEN CHOOSE k \in 1..Len(line) : line[k] = c /\ \A j \in 1..(k - 1) : line[j] # c
    ELSE 0

\* line.rindex(c): position of the last occurrence (1-based), 0 if absent
RIndex(line, c) ==
    IF \E k \in 1..Len(line) : line[k] = c
    THEN CHOOSE k \in 1..Len(line) : line[k] = c /\ \A j \in (k + 1)..Len(line) : line[j] # c
    ELSE 0

\* level = int(line[2])
LineLevel(line) == DigitValue(line[3])

\* header_text = line[line.index(">") + 1 : line.rindex("<")]
LineText(line) == SubSeq(line, Index(line, GT) + 1, RIndex(line, LT) - 1)

\* a pop loop that keeps headers of the same level open
MustPopStrict(st, ns, level) == st # <<>> /\ ns[st[Len(st)]].level > level

\* the condition of the pop loop: stack and stack[-1]["level"] >= level
MustPop(st, ns, level) == st # <<>> /\ ns[st[Len(st)]].level >= level

\* while stack and stack[-1]["level"] >= level: stack.pop()
RECURSIVE PopWhile(_, _, _)
PopWhile(st, ns, level) ==
    IF MustPop(st, ns, level)
    THEN PopWhile(SubSeq(st, 1, Len(st) - 1), ns, level)
    ELSE st

\* one iteration of "for line in lines"
ExtractStep ==
    /\ md_pc = "extract"
    /\ md_i < Len(md_lines)
    /\ LET line == md_lines[md_i + 1]
       IN  IF IsHeaderLine(line)
           THEN LET level  == LineLevel(line)
                    popped == PopWhile(stack, nodes, level)
                    id     == Len(nodes) + 1
                    header == [level |-> level, text |-> LineText(line), children |-> <<>>]
                    linked == IF popped # <<>>
                              THEN [nodes EXCEPT ![popped[Len(popped)]].children =
                                                     Append(@, id)]
                              ELSE nodes
                IN  /\ nodes' = Append(linked, header)
                    /\ headers' = IF popped # <<>> THEN headers ELSE Append(headers, id)
                    /\ stack' = Append(popped, id)
           ELSE UNCHANGED <<nodes, headers, stack>>
    /\ md_i' = md_i + 1
    /\ UNCHANGED <<md_src, md_lines, md_pc, toc, is_chinese, report_out, w_vars, s_vars>>

----------------------------------------------------------------------------
(* table_of_contents and add_references *)

\* bool(re.search(r'[\u4e00-\u9fff]', text))
contains_chinese(text) == \E k \in 1..Len(text) : CJK_LO <= text[k] /\ text[k] <= CJK_HI

\* "## 目录\n\n"
TocTitleChinese == <<HASH, HASH, SPACE, 30446, 24405, NL, NL>>

\* "## Table of Contents\n\n"
TocTitleEnglish ==
    <<HASH, HASH, SPACE, 84, 97, 98, 108, 101, SPACE, 111, 102, SPACE,
      67, 111, 110, 116, 101, 110, 116, 115, NL, NL>>

\* "## 参考资料"
RefTitleChinese == <<HASH, HASH, SPACE, 21442, 32771, 36164, 26009>>

\* "## References"
RefTitleEnglish == <<HASH, HASH, SPACE, 82, 101, 102, 101, 114, 101, 110, 99, 101, 115>>

\* " " * n
Spaces(n) == [k \in 1..n |-> SPACE]

\* a locale choice that looks at the last top-level header
last_header_text(hs, ns) == IF hs # <<>> THEN ns[hs[Len(hs)]].text ELSE <<>>

\* headers[0]["text"] if headers else ""
first_header_text(hs, ns) == IF hs # <<>> THEN ns[hs[1]].text ELSE <<>>

\* toc_title = "## 目录\n\n" if is_chinese else "## Table of Contents\n\n"
toc_title(flag) == IF flag THEN TocTitleChinese ELSE TocTitleEnglish

\* the nested function of table_of_contents, over a list of header dicts
RECURSIVE generate_table_of_contents(_, _, _)
generate_table_of_contents(hs, ns, indent_level) ==
    IF hs = <<>>
    THEN <<>>
    ELSE LET header == ns[hs[1]]
         IN  Spaces(indent_level * 4) \o <<DASH, SPACE>> \o header.text \o <<NL>>
             \o generate_table_of_contents(header.children, ns, indent_level + 1)
             \o generate_table_of_contents(Tail(hs), ns, indent_level)

\* the rest of table_of_contents once extract_headers has returned
TableOfContents ==
    /\ md_pc = "extract"
    /\ md_i = Len(md_lines)
    /\ LET flag == contains_chinese(first_header_text(headers, nodes))
       IN  /\ is_chinese' = flag
           /\ toc' = toc_title(flag) \o generate_table_of_contents(headers, nodes, 0)
    /\ md_pc' = "toc"
    /\ UNCHANGED <<md_src, md_lines, md_i, nodes, stack, headers, report_out, w_vars, s_vars>>

\* the visited URLs a caller may pass
Urls == { <<117>>, <<118>> }

\* references_title = "## 参考资料" if is_chinese else "## References"
references_title(flag) == IF flag THEN RefTitleChinese ELSE RefTitleEnglish

\* f"- [{url}]({url})\n"
UrlLine(url) == <<DASH, SPACE, 91>> \o url \o <<93, 40>> \o url \o <<41, NL>>

RECURSIVE JoinUrls(_)
JoinUrls(us) == IF us = <<>> THEN <<>> ELSE UrlLine(us[1]) \o JoinUrls(Tail(us))

\* the orders in which iterating a set of URLs may yield them
Orders(S) == { o \in [1..Cardinality(S) -> S] : \A a, b \in DOMAIN o : a # b => o[a] # o[b] }

\* add_references(report_markdown, visited_urls, is_chinese), chained on the flag
\* table_of_contents returned; the report is the table of contents itself
AddReferences ==
    /\ md_pc = "toc"
    /\ \E visited \in SUBSET Urls : \E order \in Orders(visited) :
           report_out' = toc \o <<NL, NL, NL>> \o references_title(is_chinese)
                             \o <<NL, NL>> \o JoinUrls(order)
    /\ md_pc' = "refs"
    /\ UNCHANGED <<md_src, md_lines, md_i, nodes, stack, headers, toc, is_chinese, w_vars, s_vars>>

MdInit ==
    /\ md_src \in SeqsUpTo(Items, MaxLines)
    /\ md_lines = [k \in DOMAIN md_src |-> Render(md_src[k])]
    /\ md_i = 0
    /\ nodes = <<>>
    /\ stack = <<>>
    /\ headers = <<>>
    /\ md_pc = "extract"
    /\ toc = <<>>
    /\ is_chinese = FALSE
    /\ report_out = <<>>

MdNext ==
    \/ ExtractStep
    \/ TableOfContents
    \/ AddReferences


\* the normaliser at rest, for the behaviours of the other components
MdIdle ==
    /\ md_src = <<>>
    /\ md_lines = <<>>
    /\ md_i = 0
    /\ nodes = <<>>
    /\ stack = <<>>
    /\ headers = <<>>
    /\ md_pc = "idle"
    /\ toc = <<>>
    /\ is_chinese = FALSE
    /\ report_out = <<>>

----------------------------------------------------------------------------
(* The Writer stage: WriterAgent.run *)

Titles == {"T1", "T2"}

\* the fields the caller of the stage reads from the reply of write_sections
RequiredKeys == {"table_of_contents", "introduction", "conclusion", "references"}

\* the keys of sample_json, which the prompt of write_sections asks the model for:
\* "目录", "引言", "结论", "参考文献"
SampleKeys == {"U+76EE U+5F55", "U+5F15 U+8A00", "U+7ED3 U+8BBA", "U+53C2 U+8003 U+6587 U+732E"}

\* what call_model may return to write_sections: a JSON object with some keys,
\* or something that is no mapping
Responses ==
    { [kind |-> "dict", keys |-> K] :
          K \in {RequiredKeys, RequiredKeys \ {"references"}, SampleKeys, {}} }
    \cup { [kind |-> "none", keys |-> {}] }

NoLayout == [kind |-> "unset", keys |-> {}]

\* get_headers(research_state)
get_headers(title) ==
    [kind              |-> "default",
     title             |-> title,
     date              |-> "U+65E5 U+671F",
     introduction      |-> "U+5F15 U+8A00",
     table_of_contents |-> "U+76EE U+5F55",
     conclusion        |-> "U+7ED3 U+8BBA",
     references        |-> "U+53C2 U+8003 U+8D44 U+6599"]

\* what call_model may return to revise_headers: the labels rewritten
RevisedHeaders ==
    { [kind              |-> "revised",
       title             |-> t,
       date              |-> "date'",
       introduction      |-> "introduction'",
       table_of_contents |-> "table_of_contents'",
       conclusion        |-> "conclusion'",
       references        |-> "references'"] : t \in {"T1'", "T2'"} }

NoHeaders ==
    [kind |-> "unset", title |-> "", date |-> "", introduction |-> "",
     table_of_contents |-> "", conclusion |-> "", references |-> ""]

NoResult == [returned |-> FALSE, keys |-> {}, headers |-> NoHeaders]

\* a progress test that is satisfied by either half of the capability
AttachedEither == w_websocket \/ w_stream_output

\* self.websocket and self.stream_output
Attached == w_websocket /\ w_stream_output

\* await self.stream_output("logs", key, ..., self.websocket) when attached
EmitEvent(events, key) == IF Attached THEN Append(events, key) ELSE events

\* print_agent_output(..., agent="WRITER") otherwise
EmitPrint(prints, what) == IF Attached THEN prints ELSE Append(prints, what)

\* a guideline test reading the verbosity flag
FollowGuidelinesFromVerbose == w_verbose

\* research_state.get("task").get("follow_guidelines")
FollowGuidelines == w_follow

\* return {**research_layout_content, "headers": headers}: unpacking something
\* that is no mapping raises TypeError
ReturnUpdate(layout, hd) ==
    IF layout.kind = "dict"
    THEN /\ w_pc' = "returned"
         /\ w_result' = [returned |-> TRUE, keys |-> layout.keys \cup {"headers"}, headers |-> hd]
    ELSE /\ w_pc' = "raised"
         /\ w_result' = NoResult

\* run, up to the point where write_sections awaits call_model
WriterStart ==
    /\ w_pc = "start"
    /\ w_events' = EmitEvent(w_events, "writing_report")
    /\ w_prints' = EmitPrint(w_prints, "writing_report")
    /\ w_calls' = Append(w_calls, "write_sections:call")
    /\ w_pc' = "call_model_1"
    /\ UNCHANGED <<w_websocket, w_stream_output, w_verbose, w_follow, w_title,
                   w_layout, w_headers, w_result,
                   md_vars, s_vars>>

\* call_model returns to write_sections; run goes on to its return, or to the
\* point where revise_headers awaits call_model
SectionsReturn ==
    /\ w_pc = "call_model_1"
    /\ \E resp \in Responses :
         LET ev1 == IF w_verbose THEN EmitEvent(w_events, "research_layout_content")
                    ELSE w_events
             pr1 == IF w_verbose THEN EmitPrint(w_prints, "research_layout_content")
                    ELSE w_prints
             hd  == get_headers(w_title)
         IN  /\ w_layout' = resp
             /\ w_headers' = hd
             /\ IF FollowGuidelines
                THEN /\ w_events' = EmitEvent(ev1, "rewriting_layout")
                     /\ w_prints' = EmitPrint(pr1, "rewriting_layout")
                     /\ w_calls' = w_calls \o <<"write_sections:return", "revise_headers:call">>
                     /\ w_pc' = "call_model_2"
                     /\ w_result' = w_result
                ELSE /\ w_events' = ev1
                     /\ w_prints' = pr1
                     /\ w_calls' = Append(w_calls, "write_sections:return")
                     /\ ReturnUpdate(resp, hd)
    /\ UNCHANGED <<w_websocket, w_stream_output, w_verbose, w_follow, w_title,
                   md_vars, s_vars>>

\* call_model raises inside write_sections; nothing in run catches it
SectionsFail ==
    /\ w_pc = "call_model_1"
    /\ w_pc' = "raised"
    /\ UNCHANGED <<w_websocket, w_stream_output, w_verbose, w_follow, w_title,
                   w_events, w_prints, w_calls, w_layout, w_headers, w_result,
                   md_vars, s_vars>>

\* call_model returns to revise_headers; run takes the reply as the headers
ReviseReturn ==
    /\ w_pc = "call_model_2"
    /\ \E hd \in RevisedHeaders :
         /\ w_headers' = hd
         /\ ReturnUpdate(w_layout, hd)
    /\ w_calls' = Append(w_calls, "revise_headers:return")
    /\ UNCHANGED <<w_websocket, w_stream_output, w_verbose, w_follow, w_title,
                   w_events, w_prints, w_layout,
                   md_vars, s_vars>>

\* call_model raises inside revise_headers
ReviseFail ==
    /\ w_pc = "call_model_2"
    /\ w_pc' = "raised"
    /\ UNCHANGED <<w_websocket, w_stream_output, w_verbose, w_follow, w_title,
                   w_events, w_prints, w_calls, w_layout, w_headers, w_result,
                   md_vars, s_vars>>

WInit ==
    /\ w_websocket \in BOOLEAN
    /\ w_stream_output \in BOOLEAN
    /\ w_verbose \in BOOLEAN
    /\ w_follow \in BOOLEAN
    /\ w_title \in Titles
    /\ w_pc = "start"
    /\ w_events = <<>>
    /\ w_prints = <<>>
    /\ w_calls = <<>>
    /\ w_layout = NoLayout
    /\ w_headers = NoHeaders
    /\ w_result = NoResult

\* the stage at rest, for the behaviours of the other components
WIdle ==
    /\ w_websocket = FALSE
    /\ w_stream_output = FALSE
    /\ w_verbose = FALSE
    /\ w_follow = FALSE
    /\ w_title = "T1"
    /\ w_pc = "idle"
    /\ w_events = <<>>
    /\ w_prints = <<>>
    /\ w_calls = <<>>
    /\ w_layout = NoLayout
    /\ w_headers = NoHeaders
    /\ w_result = NoResult

WNext ==
    \/ WriterStart
    \/ SectionsReturn
    \/ SectionsFail
    \/ ReviseReturn
    \/ ReviseFail

----------------------------------------------------------------------------
(* The request coordinator: generate_report, write_report, read_report,    *)
(* generate_summary                                                         *)

MaxReports == 1

MaxSummaries == 1

MaxTick == 2

MaxSubmissions == 2

\* the clock's resolution: time.time() is finer than the second int() keeps
TicksPerSecond == 2

\* request.name[:20]
NameLimit == 20

DigitChars == <<"0", "1", "2", "3", "4", "5", "6", "7", "8", "9">>

\* str(n) of a natural number, as the f-strings format it
RECURSIVE Decimal(_)
Decimal(n) ==
    IF n < 10 THEN <<DigitChars[n + 1]>> ELSE Decimal(n \div 10) \o <<DigitChars[(n % 10) + 1]>>

\* int(time.time())
Seconds(t) == t \div TicksPerSecond

\* the characters sanitize_filename removes
UnsafeChars == {"/", "'", "\""}

SafeChar(c) == c \notin UnsafeChars

\* sanitize_filename(filename) of backend.server.server_utils
sanitize_filename(filename) == SelectSeq(filename, SafeChar)

\* the task texts submitted to /report/
Tasks == { <<"a">>, <<"a", "/">> }

\* twenty characters followed by one more
LongName(c) == [k \in 1..NameLimit |-> "n"] \o <<c>>

\* the book names, authors and dates submitted to /generate-summary
Names == { <<"b">>, LongName("x"), LongName("y") }

Authors == {"A1", "A2"}

\* s[:n]
Prefix(s, n) == SubSeq(s, 1, IF Len(s) < n THEN Len(s) ELSE n)

\* f"task_{int(time.time())}_{research_request.task}"
TaskIdText(t, task) == <<"t", "a", "s", "k", "_">> \o Decimal(Seconds(t)) \o <<"_">> \o task

\* f"summary_cn_{int(time.time())}_{request.name[:20]}" and its _en_ twin
SummaryIdText(lang, t, name) ==
    <<"s", "u", "m", "m", "a", "r", "y", "_">> \o lang \o <<"_">>
    \o Decimal(Seconds(t)) \o <<"_">> \o Prefix(name, NameLimit)

\* the message of the exception a step of write_report raises
StepError(step) == step

NoResponse == [kind |-> "none", status |-> 0, ids |-> <<>>, report |-> "", error |-> ""]

\* {"message": "Your report is being generated in the background. ...", "research_id": ...}
Ack(id) == [kind |-> "ack", status |-> 200, ids |-> <<id>>, report |-> "", error |-> ""]

\* the response write_report builds: for either kind of report_type it
\* carries research_id, the report, docx_path and pdf_path
Bundle(id) ==
    [kind |-> "bundle", status |-> 200, ids |-> <<id>>, report |-> "report", error |-> ""]

\* JSONResponse(status_code=500, content={"error": str(e)})
ErrorResponse(msg) == [kind |-> "error", status |-> 500, ids |-> <<>>, report |-> "", error |-> msg]

Call(endpoint, task, background, name, author, pc, response) ==
    [endpoint |-> endpoint, task |-> task, background |-> background,
     name |-> name, author |-> author,
     time |-> now, pc |-> pc, response |-> response, exc |-> ""]

Run(call, id, lang, mode, pc) ==
    [call |-> call, id |-> id, lang |-> lang, mode |-> mode, pc |-> pc,
     steps |-> <<>>, exc |-> ""]

Count(endpoint) == Cardinality({ c \in DOMAIN s_calls : s_calls[c].endpoint = endpoint })

\* f with key k set to v
Put(f, k, v) == [x \in DOMAIN f \cup {k} |-> IF x = k THEN v ELSE f[x]]

\* the clock advances
Tick ==
    /\ now < MaxTick
    /\ now' = now + 1
    /\ UNCHANGED <<s_calls, s_runs, s_files, s_read, md_vars, w_vars>>

\* a submission that is never detached
NeverInBackground(flag) == FALSE

\* if research_request.generate_in_background
RunInBackground(flag) == flag

\* POST /report/: the handler up to its return (background) or up to the first
\* suspension of the write_report it awaits (foreground)
GenerateReport(task, background) ==
    /\ LET research_id == sanitize_filename(TaskIdText(now, task))
           c == Len(s_calls) + 1
       IN  IF RunInBackground(background)
           THEN /\ s_runs' = Append(s_runs, Run(c, research_id, <<>>, "background", "scheduled"))
                /\ s_calls' = Append(s_calls, Call("report", task, background,
                                                   <<>>, "", "responded", Ack(research_id)))
           ELSE /\ s_runs' = Append(s_runs, Run(c, research_id, <<>>, "foreground", "run_agent"))
                /\ s_calls' = Append(s_calls, Call("report", task, background,
                                                   <<>>, "", "awaiting", NoResponse))
    /\ UNCHANGED <<now, s_files, s_read, md_vars, w_vars>>

\* the response has been sent: the background task starts write_report
BackgroundStart(r) ==
    /\ s_runs[r].pc = "scheduled"
    /\ s_runs' = [s_runs EXCEPT ![r].pc = "run_agent"]
    /\ UNCHANGED <<now, s_calls, s_files, s_read, md_vars, w_vars>>

\* what an exception leaving write_report does to the call that started it:
\* an awaiting handler of /report/ has no except clause and raises; gather
\* hands the first exception to generate_summary; a background task has no
\* caller left
Raise(c, mode, msg) ==
    CASE mode = "foreground" -> [s_calls EXCEPT ![c].pc = "raised", ![c].exc = msg]
      [] mode = "gather"     -> [s_calls EXCEPT ![c].exc = IF @ = "" THEN msg ELSE @]
      [] OTHER               -> s_calls

\* a step of write_report raises
StepFail(r, step) ==
    /\ s_runs[r].pc = step
    /\ s_runs' = [s_runs EXCEPT ![r].pc = "failed", ![r].exc = StepError(step)]
    /\ s_calls' = Raise(s_runs[r].call, s_runs[r].mode, StepError(step))
    /\ UNCHANGED <<now, s_files, s_read, md_vars, w_vars>>

\* report_information = await run_agent(...)
RunAgentOk(r) ==
    /\ s_runs[r].pc = "run_agent"
    /\ s_runs' = [s_runs EXCEPT ![r].pc = "word", ![r].steps = Append(@, "run_agent")]
    /\ UNCHANGED <<now, s_calls, s_files, s_read, md_vars, w_vars>>

\* Config(), Tone[...] or run_agent raises
RunAgentFail(r) == StepFail(r, "run_agent")

\* write_md_to_word(text, filename) of backend.utils: the export of invocation r
\* to outputs/<filename>.docx
write_md_to_word(files, filename, r) == Put(files, <<filename, "docx">>, r)

\* write_md_to_pdf(text, filename) of backend.utils: the export of invocation r
\* to outputs/<filename>.pdf
write_md_to_pdf(files, filename, r) == Put(files, <<filename, "pdf">>, r)

\* docx_path = await write_md_to_word(report_information[0], research_id)
WriteWordOk(r) ==
    /\ s_runs[r].pc = "word"
    /\ s_files' = write_md_to_word(s_files, s_runs[r].id, r)
    /\ s_runs' = [s_runs EXCEPT ![r].pc = "pdf", ![r].steps = Append(@, "word")]
    /\ UNCHANGED <<now, s_calls, s_read, md_vars, w_vars>>

WriteWordFail(r) == StepFail(r, "word")

\* pdf_path = await write_md_to_pdf(report_information[0], research_id), the
\* response, and the return to an awaiting handler of /report/, which returns it
WritePdfOk(r) ==
    /\ s_runs[r].pc = "pdf"
    /\ s_files' = write_md_to_pdf(s_files, s_runs[r].id, r)
    /\ s_runs' = [s_runs EXCEPT ![r].pc = "done", ![r].steps = Append(@, "pdf")]
    /\ LET c == s_runs[r].call
       IN  s_calls' = IF s_runs[r].mode = "foreground"
                      THEN [s_calls EXCEPT ![c].pc = "responded",
                                           ![c].response =
                                               Bundle(s_runs[r].id)]
                      ELSE s_calls
    /\ UNCHANGED <<now, s_read, md_vars, w_vars>>

WritePdfFail(r) == StepFail(r, "pdf")

\* write_md_to_pdf returns, and then the unpacking of report_information or a
\* getter of the researcher raises while the response is built
ResponseFail(r) ==
    /\ s_runs[r].pc = "pdf"
    /\ s_files' = write_md_to_pdf(s_files, s_runs[r].id, r)
    /\ s_runs' = [s_runs EXCEPT ![r].pc = "failed", ![r].steps = Append(@, "pdf"),
                                ![r].exc = StepError("response")]
    /\ s_calls' = Raise(s_runs[r].call, s_runs[r].mode, StepError("response"))
    /\ UNCHANGED <<now, s_read, md_vars, w_vars>>

NoRead == [asked |-> FALSE, id |-> <<>>, found |-> FALSE, by |-> 0]

\* GET /report/{research_id}: FileResponse(docx_path) if the file exists, else
\* {"message": "Report not found."}
read_report(research_id) ==
    IF <<research_id, "docx">> \in DOMAIN s_files
    THEN [asked |-> TRUE, id |-> research_id, found |-> TRUE,
          by |-> s_files[<<research_id, "docx">>]]
    ELSE [asked |-> TRUE, id |-> research_id, found |-> FALSE, by |-> 0]

ReadReport(research_id) ==
    /\ s_read' = read_report(research_id)
    /\ UNCHANGED <<now, s_calls, s_runs, s_files, md_vars, w_vars>>

\* POST /generate-summary, up to the await of asyncio.gather: both
\* write_report coroutines are wrapped in tasks and started
GenerateSummary(name, author) ==
    /\ LET chinese_id == sanitize_filename(SummaryIdText(<<"c", "n">>, now, name))
           english_id == sanitize_filename(SummaryIdText(<<"e", "n">>, now, name))
           c == Len(s_calls) + 1
       IN  /\ s_runs' = s_runs \o << Run(c, chinese_id, <<"c", "n">>, "gather", "run_agent"),
                                     Run(c, english_id, <<"e", "n">>, "gather", "run_agent") >>
           /\ s_calls' = Append(s_calls, Call("summary", <<>>, FALSE,
                                              name, author, "gathering", NoResponse))
    /\ UNCHANGED <<now, s_files, s_read, md_vars, w_vars>>

\* the invocations generate_summary call c started
Children(c) == { r \in DOMAIN s_runs : s_runs[r].call = c }

\* the child of call c for a language
Child(c, lang) == CHOOSE r \in Children(c) : s_runs[r].lang = lang

\* the dict generate_summary returns from the two results
SummaryResult(c) ==
    [kind |-> "summary", status |-> 200,
     ids |-> <<s_runs[Child(c, <<"c", "n">>)].id, s_runs[Child(c, <<"e", "n">>)].id>>,
     report |-> "report", error |-> ""]

\* a handler that answers with what it has, whatever gather raised
SummaryResponseIgnoringFailure(c) == SummaryResult(c)

\* the try/except of generate_summary around the await of gather
SummaryResponse(c) ==
    IF s_calls[c].exc # "" THEN ErrorResponse(s_calls[c].exc) ELSE SummaryResult(c)

\* the await of asyncio.gather(...) ends: with the first exception as soon as
\* one invocation has raised, else with both results once both are done
SummaryRespond(c) ==
    /\ s_calls[c].pc = "gathering"
    /\ \/ s_calls[c].exc # ""
       \/ \A r \in Children(c) : s_runs[r].pc = "done"
    /\ s_calls' = [s_calls EXCEPT ![c].pc = "responded", ![c].response = SummaryResponse(c)]
    /\ UNCHANGED <<now, s_runs, s_files, s_read, md_vars, w_vars>>

SInit ==
    /\ now = 0
    /\ s_calls = <<>>
    /\ s_runs = <<>>
    /\ s_files = <<>>
    /\ s_read = NoRead

\* the coordinator at rest, for the behaviours of the other components
SIdle == SInit

Ids == { s_runs[r].id : r \in DOMAIN s_runs }

\* the endpoint /report/ with its background tasks and the retrieval endpoint
ReportNext ==
    \/ Tick
    \/ \E task \in Tasks, background \in BOOLEAN :
           Count("report") < MaxReports /\ GenerateReport(task, background)
    \/ \E r \in DOMAIN s_runs : BackgroundStart(r)
    \/ \E r \in DOMAIN s_runs : RunAgentOk(r)
    \/ \E r \in DOMAIN s_runs : RunAgentFail(r)
    \/ \E r \in DOMAIN s_runs : WriteWordOk(r)
    \/ \E r \in DOMAIN s_runs : WriteWordFail(r)
    \/ \E r \in DOMAIN s_runs : WritePdfOk(r)
    \/ \E r \in DOMAIN s_runs : WritePdfFail(r)
    \/ \E r \in DOMAIN s_runs : ResponseFail(r)
    \/ \E research_id \in Ids : ReadReport(research_id)

\* the endpoint /generate-summary and the invocations it gathers
SummaryNext ==
    \/ \E name \in Names, author \in Authors :
           Count("summary") < MaxSummaries /\ GenerateSummary(name, author)
    \/ \E r \in DOMAIN s_runs : RunAgentOk(r)
    \/ \E r \in DOMAIN s_runs : RunAgentFail(r)
    \/ \E r \in DOMAIN s_runs : WriteWordOk(r)
    \/ \E r \in DOMAIN s_runs : WriteWordFail(r)
    \/ \E r \in DOMAIN s_runs : WritePdfOk(r)
    \/ \E r \in DOMAIN s_runs : WritePdfFail(r)
    \/ \E r \in DOMAIN s_runs : ResponseFail(r)
    \/ \E c \in DOMAIN s_calls : SummaryRespond(c)

\* the derivation of research identifiers by both endpoints, as time passes
IdsNext ==
    \/ Tick
    \/ \E name \in Names, author \in Authors :
           Len(s_calls) < MaxSubmissions /\ GenerateSummary(name, author)
    \/ \E task \in Tasks, background \in BOOLEAN :
           Len(s_calls) < MaxSubmissions /\ GenerateReport(task, background)

----------------------------------------------------------------------------
(* Specifications: one per component, the other components at rest *)

InitMarkdown == MdInit /\ WIdle /\ SIdle

InitWriter == WInit /\ MdIdle /\ SIdle

InitServer == SInit /\ MdIdle /\ WIdle

SpecMarkdown == InitMarkdown /\ [][MdNext]_vars

SpecWriter == InitWriter /\ [][WNext]_vars

SpecReport == InitServer /\ [][ReportNext]_vars

SpecSummary == InitServer /\ [][SummaryNext]_vars

SpecIds == InitServer /\ [][IdsNext]_vars

----------------------------------------------------------------------------
(* Properties of the markdown normaliser *)

\* the header items among the first n items of the document, in order
RECURSIVE HeadersOf(_, _)
HeadersOf(src, n) ==
    IF n = 0
    THEN <<>>
    ELSE IF src[n].h
         THEN Append(HeadersOf(src, n - 1), [level |-> src[n].level, text |-> src[n].text])
         ELSE HeadersOf(src, n - 1)

\* depth-first pre-order traversal of a forest, as (level, text) pairs
RECURSIVE Preorder(_, _)
Preorder(hs, ns) ==
    IF hs = <<>>
    THEN <<>>
    ELSE <<[level |-> ns[hs[1]].level, text |-> ns[hs[1]].text]>>
         \o Preorder(ns[hs[1]].children, ns)
         \o Preorder(Tail(hs), ns)

Range(f) == { f[x] : x \in DOMAIN f }

\* C5: at every point of extract_headers' loop, and so for the forest it
\* returns, the depth-first pre-order traversal of the forest is the sequence of
\* headers consumed so far (same levels and texts, same order); every child has
\* a level strictly greater than its parent's; and a header is a root exactly
\* when no header before it has a strictly lower level.
C5_HeaderForest ==
    /\ Preorder(headers, nodes) = HeadersOf(md_src, md_i)
    /\ \A n \in DOMAIN nodes : \A c \in Range(nodes[n].children) :
           nodes[c].level > nodes[n].level
    /\ \A k \in DOMAIN nodes :
           (k \in Range(headers)) <=> (\A j \in 1..(k - 1) : nodes[j].level >= nodes[k].level)

\* a finished extraction of three headers where the third closes the second
\* (deeper) one and becomes its sibling under the first
C5_Witness ==
    /\ md_pc = "toc"
    /\ Len(nodes) = 3
    /\ nodes[1].children = <<2, 3>>
    /\ nodes[2].level > nodes[3].level
    /\ headers = <<1>>

\* a code point of the CJK Unified Ideographs block, U+4E00..U+9FFF
IsCJK(c) == c >= 19968 /\ c <= 40959

HasCJK(text) == \E k \in DOMAIN text : IsCJK(text[k])

\* whether s continues with t from position p on
HasAt(s, p, t) == Len(s) >= p + Len(t) - 1 /\ SubSeq(s, p, p + Len(t) - 1) = t

\* the locale the document's first header asks for
FirstHeaderIsCJK ==
    LET hs == HeadersOf(md_src, Len(md_src))
    IN  hs # <<>> /\ HasCJK(hs[1].text)

\* C9: the flag table_of_contents returns, its title, and the title that
\* add_references chained on that flag appends, are the CJK ones exactly when
\* the text of the document's first header contains a CJK ideograph; no other
\* header counts, and a document without headers gets the non-CJK labels.
C9_LocaleConsistency ==
    /\ md_pc \in {"toc", "refs"} =>
           /\ is_chinese = FirstHeaderIsCJK
           /\ HasAt(toc, 1, IF FirstHeaderIsCJK THEN TocTitleChinese ELSE TocTitleEnglish)
    /\ md_pc = "refs" =>
           HasAt(report_out, Len(toc) + 4,
                 (IF FirstHeaderIsCJK THEN RefTitleChinese ELSE RefTitleEnglish) \o <<NL, NL>>)

\* references appended for a document whose first header is CJK and whose
\* second top-level header is not
C9_Witness ==
    /\ md_pc = "refs"
    /\ is_chinese
    /\ Len(headers) >= 2
    /\ ~HasCJK(nodes[headers[Len(headers)]].text)
    /\ HasAt(report_out, Len(toc) + 4, RefTitleChinese)

----------------------------------------------------------------------------
(* Properties of the Writer stage *)

Occurrences(seq, x) == Cardinality({ k \in DOMAIN seq : seq[k] = x })

\* the position of the first x in seq, 0 if there is none
FirstPos(seq, x) ==
    IF \E k \in DOMAIN seq : seq[k] = x
    THEN CHOOSE k \in DOMAIN seq : seq[k] = x /\ \A j \in 1..(k - 1) : seq[j] # x
    ELSE 0

\* write_sections has returned to run
SectionsCompleted == Occurrences(w_calls, "write_sections:return") > 0

\* the fixed label set: the title of the state, then the date, introduction,
\* table-of-contents, conclusion and references labels
\* ("日期", "引言", "目录", "结论", "参考资料")
DefaultLabels ==
    [kind              |-> "default",
     title             |-> w_title,
     date              |-> "U+65E5 U+671F",
     introduction      |-> "U+5F15 U+8A00",
     table_of_contents |-> "U+76EE U+5F55",
     conclusion        |-> "U+7ED3 U+8BBA",
     references        |-> "U+53C2 U+8003 U+8D44 U+6599"]

\* C6: a run calls write_sections exactly once; it calls revise_headers at
\* most once, only with follow_guidelines set and only after write_sections has
\* returned; once write_sections has returned, revise_headers has been called
\* exactly when follow_guidelines is set; and a run that returns with the flag
\* unset returns the fixed default labels, with the title of the state.
C6_WriterCalls ==
    /\ Occurrences(w_calls, "write_sections:call") = (IF w_pc = "start" THEN 0 ELSE 1)
    /\ Occurrences(w_calls, "revise_headers:call") <= 1
    /\ Occurrences(w_calls, "revise_headers:call") = 1 =>
           /\ w_follow
           /\ SectionsCompleted
           /\ FirstPos(w_calls, "write_sections:return") < FirstPos(w_calls, "revise_headers:call")
    /\ SectionsCompleted => (Occurrences(w_calls, "revise_headers:call") = 1 <=> w_follow)
    /\ w_pc = "returned" =>
           /\ w_result.returned
           /\ w_follow => w_result.headers.kind = "revised"
           /\ ~w_follow => w_result.headers = DefaultLabels

\* a run with follow_guidelines set that returned the revised headers
C6_Witness ==
    /\ w_pc = "returned"
    /\ w_follow
    /\ w_calls = <<"write_sections:call", "write_sections:return",
                   "revise_headers:call", "revise_headers:return">>
    /\ w_result.headers.kind = "revised"

\* a progress-reporting capability is attached: a connection and a stream function
HasProgressCapability == w_websocket /\ w_stream_output

\* C7 as stated: with the capability attached a run emits no event other than
\* "writing_report" and "rewriting_layout", whatever the task configuration
\* (the verbosity flag included), the latter only if revise_headers runs; and
\* a run never writes to both the capability and the local sink.
C7_OnlyTwoEvents ==
    /\ HasProgressCapability =>
           /\ \A k \in DOMAIN w_events : w_events[k] \in {"writing_report", "rewriting_layout"}
           /\ Occurrences(w_events, "rewriting_layout") =
                  Occurrences(w_calls, "revise_headers:call")
           /\ w_pc # "start" => Occurrences(w_events, "writing_report") = 1
    /\ ~(w_events # <<>> /\ w_prints # <<>>)

\* the events a run has emitted by now when the capability is attached
ExpectedEvents ==
    IF w_pc = "start"
    THEN <<>>
    ELSE <<"writing_report">>
         \o (IF SectionsCompleted /\ w_verbose THEN <<"research_layout_content">> ELSE <<>>)
         \o (IF Occurrences(w_calls, "revise_headers:call") = 1
             THEN <<"rewriting_layout">> ELSE <<>>)

\* C7, amended: with the capability attached a run emits "writing_report"
\* before write_sections, then "research_layout_content" after write_sections
\* has returned exactly when the task's verbose flag is set, then
\* "rewriting_layout" exactly when revise_headers runs, and no other event, and
\* prints nothing; without the capability it emits no event; so a run never
\* writes to both.
C7_ProgressEvents ==
    /\ HasProgressCapability => (w_events = ExpectedEvents /\ w_prints = <<>>)
    /\ ~HasProgressCapability => (w_events = <<>> /\ w_prints = ExpectedEvents)
    /\ ~(w_events # <<>> /\ w_prints # <<>>)

\* a verbose, guideline-following run with the capability attached has returned
C7_Witness ==
    /\ HasProgressCapability
    /\ w_verbose
    /\ w_follow
    /\ w_pc = "returned"
    /\ w_events = <<"writing_report", "research_layout_content", "rewriting_layout">>

\* the reply of the model to write_sections has the fields of the update
WellFormed(layout) == layout.kind = "dict" /\ RequiredKeys \subseteq layout.keys

\* C8: an update that run returns has the fields table_of_contents,
\* introduction, conclusion and references; and a run whose model reply lacks
\* them never returns an update.
C8_NoMalformedUpdate ==
    /\ w_pc = "returned" => RequiredKeys \subseteq w_result.keys
    /\ (w_layout # NoLayout /\ ~WellFormed(w_layout)) => (w_pc # "returned" /\ ~w_result.returned)

----------------------------------------------------------------------------
(* Properties of the request coordinator *)

ReportCalls == { c \in DOMAIN s_calls : s_calls[c].endpoint = "report" }

SummaryCalls == { c \in DOMAIN s_calls : s_calls[c].endpoint = "summary" }

\* the invocation of write_report a call of /report/ started
RunOf(c) == CHOOSE r \in DOMAIN s_runs : s_runs[r].call = c

\* call c of /report/ returns its response in this step
RespondsNow(c) ==
    /\ c \in DOMAIN s_calls'
    /\ s_calls'[c].endpoint = "report"
    /\ s_calls'[c].pc = "responded"
    /\ (c \in DOMAIN s_calls => s_calls[c].pc # "responded")

\* what holds of every answered submission
C1_Responses ==
    \A c \in ReportCalls :
        LET call == s_calls[c]
            run  == s_runs[RunOf(c)]
        IN  /\ call.background =>
                /\ call.pc = "responded"
                /\ call.response.kind = "ack"
                /\ call.response.ids = <<run.id>>
            /\ (~call.background /\ call.pc = "responded") =>
                /\ run.pc = "done"
                /\ run.steps = <<"run_agent", "word", "pdf">>
                /\ call.response.kind = "bundle"
                /\ call.response.ids = <<run.id>>
            /\ (~call.background /\ call.pc # "responded") => call.response = NoResponse

\* what holds of the step in which a background submission is answered
C1_BackgroundStep ==
    \A c \in DOMAIN s_calls' :
        (RespondsNow(c) /\ s_calls'[c].background) =>
            /\ s_runs'[CHOOSE r \in DOMAIN s_runs' : s_runs'[r].call = c].pc = "scheduled"
            /\ s_runs'[CHOOSE r \in DOMAIN s_runs' : s_runs'[r].call = c].steps = <<>>

\* C1: a background submission is answered with {message, research_id} in
\* the step that schedules the run, before any step of the run (run_agent and
\* the two exports come after the response); a foreground submission is
\* answered only once run_agent and both exports of its run have completed,
\* with the research_id computed for the submission.
C1_BackgroundForeground == []C1_Responses /\ [][C1_BackgroundStep]_vars

\* a background submission was acknowledged and its run has since gone
\* through run_agent and both exports
C1_Witness ==
    \E c \in ReportCalls :
        /\ s_calls[c].pc = "responded"
        /\ s_runs[RunOf(c)].pc = "done"
        /\ s_calls[c].background
        /\ s_calls[c].response.kind = "ack"

\* C2: once generate_summary has returned its response, every write_report
\* invocation it started has finished, successfully or not.
C2_WaitsForAll ==
    \A c \in SummaryCalls :
        s_calls[c].pc = "responded" =>
            \A r \in Children(c) : s_runs[r].pc \in {"done", "failed"}

\* the messages of the invocations of call c that have raised
FailureMessages(c) == { s_runs[r].exc : r \in { x \in Children(c) : s_runs[x].pc = "failed" } }

\* C3: when an invocation started by generate_summary has raised, the
\* response is an error payload with a non-success status that carries the
\* message of a raised error, never a normal result.
C3_FailureSurfaced ==
    \A c \in SummaryCalls :
        s_calls[c].pc = "responded" =>
            /\ FailureMessages(c) # {} =>
                   /\ s_calls[c].response.kind = "error"
                   /\ s_calls[c].response.status = 500
                   /\ s_calls[c].response.error \in FailureMessages(c)
            /\ s_calls[c].response.kind = "summary" =>
                   \A r \in Children(c) : s_runs[r].pc = "done"

\* a summary answered with an error after one invocation raised at its PDF
\* export while the other one finished
C3_Witness ==
    \E c \in SummaryCalls :
        /\ s_calls[c].pc = "responded"
        /\ s_calls[c].response.kind = "error"
        /\ \E r \in Children(c) : s_runs[r].pc = "failed" /\ s_runs[r].exc = StepError("pdf")
        /\ \E r \in Children(c) : s_runs[r].pc = "done"

\* C4: after a background run has failed, retrieval by its research_id does
\* not return an export artifact of that run.
C4_FailedRunNotRetrievable ==
    \A r \in DOMAIN s_runs :
        (s_runs[r].mode = "background" /\ s_runs[r].pc = "failed") =>
            LET got == read_report(s_runs[r].id)
            IN  ~(got.found /\ got.by = r)

\* what a request says: the task of a report submission; the name, author and
\* language of a summary's report request
Content(r) ==
    LET call == s_calls[s_runs[r].call]
    IN  [endpoint |-> call.endpoint, task |-> call.task, name |-> call.name,
         author |-> call.author, lang |-> s_runs[r].lang]

\* the time.time() at which the identifier of r was computed
Timestamp(r) == s_calls[s_runs[r].call].time

\* C10: two requests with different content have different research_ids, and
\* so have two requests with the same content made at different times.
C10_NoCollision ==
    \A r1, r2 \in DOMAIN s_runs :
        (r1 # r2 /\ (Content(r1) # Content(r2) \/ Timestamp(r1) # Timestamp(r2))) =>
            s_runs[r1].id # s_runs[r2].id

====
